---- MODULE Spec2Model ----
(***************************************************************************)
(* Model of the ebook page layout engine of src/ebooktest2/PageLayout.cpp  *)
(* (class PageLayout, FontCache).  REAL values are single-precision floats *)
(* written as fractions [n |-> numerator, d |-> a power of two]; pages     *)
(* live in a heap (pages) and are named by their index, as the C++ code    *)
(* names them by pointer.                                                  *)
(***************************************************************************)
EXTENDS Integers, Sequences, FiniteSets, TLC

\* ------------------------------------------------------------------ bounds
\* tokens the html parser yields in one session (specification Spec)
MaxTokens == 2
\* characters of one text token (specification Spec)
MaxTextLen == 5
\* tokens given to AddWord / HandleHtmlTag in specification SpecAddWord
MaxWordTokens == 5
\* characters of one text token in specification SpecEmitText
MaxParaLen == 6
\* text tokens of one session in specification SpecEmitText
MaxParaTokens == 1
\* characters of the string a WordsIter is built on (SpecWordsIter)
MaxIterLen == 4
\* tokens a WordsIter returns before the model stops calling Next
MaxIterCalls == 6
\* calls of FontCache::GetFont in specification SpecFontCache
MaxFontCalls == 3
\* style tags of one session in specification SpecStyle
MaxStyleTags == 3
\* tokens of one session and characters of a text token in SpecAlign
MaxAlignTokens == 3
MaxAlignTextLen == 3

\* ------------------------------------------------------------------ REAL
\* REAL is float: an IEEE 754 single-precision value, written as the exact
\* fraction [n |-> numerator, d |-> denominator], d a power of two, in
\* lowest terms. Every operation rounds its exact result to a 24-bit
\* significand, ties to even, as the hardware does.
RECURSIVE GCD(_, _)
GCD(a, b) == IF b = 0 THEN a ELSE GCD(b, a % b)

Abs(i) == IF i < 0 THEN -i ELSE i

Norm(n, d) ==
    LET sn == IF d < 0 THEN -n ELSE n
        sd == Abs(d)
        g  == GCD(Abs(sn), sd)
    IN  [n |-> sn \div g, d |-> sd \div g]

R(i) == [n |-> i, d |-> 1]
Zero == R(0)

\* the number of binary digits of m >= 0
RECURSIVE BitLen(_)
BitLen(m) == IF m = 0 THEN 0 ELSE 1 + BitLen(m \div 2)

Pow2(k) == 2 ^ k

\* sign, significand m (2^23 <= m < 2^24) and exponent e of a # 0:
\* a = sg * m * 2^e
Unpack(a) ==
    LET sh == 24 - BitLen(Abs(a.n))
    IN  [sg |-> IF a.n < 0 THEN -1 ELSE 1,
         m |-> Abs(a.n) * Pow2(sh),
         e |-> 0 - (BitLen(a.d) - 1) - sh]

\* the fraction sg * m * 2^e in lowest terms
RECURSIVE Pack(_, _, _)
Pack(sg, m, e) ==
    IF m = 0 THEN Zero
    ELSE IF e < 0 /\ m % 2 = 0 THEN Pack(sg, m \div 2, e + 1)
    ELSE IF e >= 0 THEN [n |-> sg * m * Pow2(e), d |-> 1]
    ELSE [n |-> sg * m, d |-> Pow2(0 - e)]

\* sg * m * 2^e rounded to 24 significant bits, ties to even; a set lowest
\* bit of an m of 26 bits or more stands for any nonzero rest below it
Round24(sg, m, e) ==
    LET r == BitLen(m) - 24
    IN  IF r <= 0 THEN Pack(sg, m, e)
        ELSE LET q == m \div Pow2(r)
                 rest == m % Pow2(r)
                 half == Pow2(r - 1)
                 up == rest > half \/ (rest = half /\ q % 2 = 1)
             IN  Pack(sg, IF up THEN q + 1 ELSE q, e + r)

\* m shifted right by k bits, the bits shifted out kept as a set lowest bit
ShiftSticky(m, k) ==
    IF k > 30 THEN 1
    ELSE LET q == m \div Pow2(k)
         IN  IF m % Pow2(k) # 0 /\ q % 2 = 0 THEN q + 1 ELSE q

\* x + y for unpacked x, y with |x| >= |y| > 0, on three guard bits
AddUnpacked(x, y) ==
    LET xm == x.m * 8
        ym == ShiftSticky(y.m * 8, x.e - y.e)
    IN  IF x.sg = y.sg THEN Round24(x.sg, xm + ym, x.e - 3)
        ELSE Round24(x.sg, xm - ym, x.e - 3)

MagLt(x, y) == x.e < y.e \/ (x.e = y.e /\ x.m < y.m)

RNeg(a) == [n |-> 0 - a.n, d |-> a.d]

\* float + float
RAdd(a, b) ==
    IF a.n = 0 THEN b
    ELSE IF b.n = 0 THEN a
    ELSE LET x == Unpack(a)
             y == Unpack(b)
         IN  IF MagLt(x, y) THEN AddUnpacked(y, x) ELSE AddUnpacked(x, y)

\* float - float
RSub(a, b) == RAdd(a, RNeg(b))

\* float * float: the 48-bit product of the significands from 12-bit halves
RMul(a, b) ==
    IF a.n = 0 \/ b.n = 0 THEN Zero
    ELSE LET x == Unpack(a)
             y == Unpack(b)
             x1 == x.m \div 4096
             x0 == x.m % 4096
             y1 == y.m \div 4096
             y0 == y.m % 4096
             mid == x1 * y0 + x0 * y1
             low == (mid % 4096) * 4096 + x0 * y0
             hi == x1 * y1 + mid \div 4096 + low \div 16777216
             lo == low % 16777216
             top == hi * 4 + lo \div 4194304
             st == IF lo % 4194304 # 0 THEN 1 ELSE 0
         IN  Round24(x.sg * y.sg, top * 2 + st, x.e + y.e + 21)

\* the quotient bits of rem / den, k more of them behind q, and the rest
RECURSIVE DivBits(_, _, _, _)
DivBits(q, rem, den, k) ==
    IF k = 0 THEN [q |-> q, rem |-> rem]
    ELSE IF 2 * rem >= den
         THEN DivBits(2 * q + 1, 2 * rem - den, den, k - 1)
         ELSE DivBits(2 * q, 2 * rem, den, k - 1)

\* float / float (b # 0)
RDiv(a, b) ==
    IF a.n = 0 THEN Zero
    ELSE LET x == Unpack(a)
             y == Unpack(b)
             r == DivBits(x.m \div y.m, x.m % y.m, y.m, 25)
             st == IF r.rem # 0 THEN 1 ELSE 0
         IN  Round24(x.sg * y.sg, r.q * 2 + st, x.e - y.e - 26)

Sgn(a) == IF a.n > 0 THEN 1 ELSE IF a.n < 0 THEN -1 ELSE 0

\* float < float, float <= float
RLt(a, b) ==
    IF Sgn(a) # Sgn(b) THEN Sgn(a) < Sgn(b)
    ELSE IF Sgn(a) = 0 THEN FALSE
    ELSE IF Sgn(a) = 1 THEN MagLt(Unpack(a), Unpack(b))
    ELSE MagLt(Unpack(b), Unpack(a))
RLe(a, b) == ~RLt(b, a)

\* the min macro: a < b ? a : b
RMin(a, b) == IF RLt(a, b) THEN a ELSE b

\* Let([v \in {e} |-> body]) is body with v bound to the value of e: the
\* state (or value) one statement leaves, named for the statements after it.
Let(f) == f[CHOOSE v \in DOMAIN f : TRUE]

\* ------------------------------------------------------------ GDI+ enums
FontStyleRegular == 0
FontStyleBold == 1
FontStyleItalic == 2
FontStyleUnderline == 4
FontStyleStrikeout == 8

HasStyle(m, fs) == (m \div fs) % 2 = 1
\* (FontStyle) (m | fs) and (FontStyle) (m & ~fs) for a one-bit fs
StyleOr(m, fs) == IF HasStyle(m, fs) THEN m ELSE m + fs
StyleAndNot(m, fs) == IF HasStyle(m, fs) THEN m - fs ELSE m

Align_Left == "left"
Align_Right == "right"
Align_Center == "center"
Align_Justify == "justify"
\* what FindAlignAttr gives for a value that names no alignment
Align_NotFound == "notfound"

InstrTypeString == "Text"
InstrTypeLine == "Rule"
InstrTypeSetFont == "SetFont"
InstrTypeImage == "Image"

NULL == 0

\* ------------------------------------------------------------ DrawInstr
RectF(x, y, w, h) == [X |-> x, Y |-> y, Width |-> w, Height |-> h]
NoRect == RectF(Zero, Zero, Zero, Zero)

\* ImageData2: whether BitmapFromData decodes it, and its pixel size
NoData == [ok |-> FALSE, w |-> 0, h |-> 0]

\* DrawInstr::SetFont, DrawInstr::Str, DrawInstr::Line, DrawInstr::Image
InstrSetFont(font) ==
    [type |-> InstrTypeSetFont, font |-> font, s |-> <<>>, data |-> NoData,
     bbox |-> NoRect]
InstrStr(s, bbox) ==
    [type |-> InstrTypeString, font |-> NULL, s |-> s, data |-> NoData,
     bbox |-> bbox]
InstrLine(bbox) ==
    [type |-> InstrTypeLine, font |-> NULL, s |-> <<>>, data |-> NoData,
     bbox |-> bbox]
InstrImage(data, bbox) ==
    [type |-> InstrTypeImage, font |-> NULL, s |-> <<>>, data |-> data,
     bbox |-> bbox]

\* ------------------------------------------------------------ FontCache
\* FontCache::GetFont: the handle of the entry equal to (name, size, style),
\* or a new entry with a fresh handle appended to the cache.
CacheHits(cache, name, size, style) ==
    {i \in 1..Len(cache) : cache[i].name = name /\ cache[i].size = size
                           /\ cache[i].style = style}

Min(S) == CHOOSE x \in S : \A y \in S : x <= y
Max(S) == CHOOSE x \in S : \A y \in S : y <= x

\* GetFont as it would be without the lookup of an equal entry
GetFont_NoLookup(cache, name, size, style) ==
    Let([f \in {Len(cache) + 1} |->
    [cache |-> Append(cache, [name |-> name, size |-> size,
                              style |-> style, font |-> f]),
     font |-> f]])

GetFont(cache, name, size, style) ==
    LET hits == CacheHits(cache, name, size, style)
    IN  IF hits # {}
        THEN [cache |-> cache, font |-> cache[Min(hits)].font]
        ELSE LET f == Len(cache) + 1
             IN  [cache |-> Append(cache, [name |-> name, size |-> size,
                                           style |-> style, font |-> f]),
                  font |-> f]

\* Whether ::new Font(name, size, style) yields a usable font: the font
\* family must be installed. GetFont stores and returns the object either way.
InstalledFonts == {"F", "G"}
FontOk(name, size, style) == name \in InstalledFonts

\* style of the font behind a handle (NULL handle: regular)
FontStyleOf(cache, font) ==
    IF font \in 1..Len(cache) THEN cache[font].style ELSE FontStyleRegular

\* ------------------------------------------------- measurement capability
Chars == {"a", " ", "\n"}
IsWs(c) == c \in {" ", "\n"}

\* advance of one letter under a font: bold faces are wider
CharDx(style) == IF HasStyle(style, FontStyleBold) THEN 4 ELSE 3

\* MeasureText(&gfx, currFont, buf, strLen): the box of a word at the origin
MeasureText(cache, font, word, height) ==
    RectF(Zero, Zero, R(Len(word) * CharDx(FontStyleOf(cache, font))), height)

\* ------------------------------------------------------------ WordsIter
\* A string is a sequence of characters; a position is an index into it,
\* end being Len(t) + 1.
IterChars == {"a", " ", "\r", "\n", "\t"}

\* isspace() of the C library on these characters
IsSpace(c) == c \in {" ", "\t", "\n", "\r"}

\* IsNewlineSkip as it would be if it took every line ending that follows
RECURSIVE IsNewlineSkip_Merge(_, _)
IsNewlineSkip_Merge(t, s) ==
    IF s <= Len(t) /\ t[s] \in {"\r", "\n"}
    THEN IsNewlineSkip_Merge(t, s + 1)
    ELSE s

\* IsNewlineSkip: the position s is advanced to; the function returns true
\* iff that is not s itself
IsNewlineSkip(t, s) ==
    Let([s1 \in {IF s <= Len(t) /\ t[s] = "\r" THEN s + 1 ELSE s} |->
    IF s1 <= Len(t) /\ t[s1] = "\n" THEN s1 + 1 ELSE s1])

\* while (curr < end && *curr == ' ') curr++
RECURSIVE SkipSpaces(_, _)
SkipSpaces(t, curr0) ==
    IF curr0 <= Len(t) /\ t[curr0] = " " THEN SkipSpaces(t, curr0 + 1) ELSE curr0

\* while (curr < end && !isspace(*curr)) curr++
RECURSIVE SkipToSpace(_, _)
SkipToSpace(t, curr0) ==
    IF curr0 <= Len(t) /\ ~IsSpace(t[curr0]) THEN SkipToSpace(t, curr0 + 1)
    ELSE curr0

\* WordsIter::Next up to its last assert: the new read position, the kind
\* of the result and the characters of the token (wi.s, wi.len)
WordsIterNext(t, curr0) ==
    Let([c0 \in {SkipSpaces(t, curr0)} |->
    IF c0 = Len(t) + 1
    THEN [curr |-> c0, ret |-> "NULL", wi |-> <<>>]
    ELSE Let([n \in {IsNewlineSkip(t, c0)} |->
         IF n # c0
         THEN [curr |-> n, ret |-> "newline", wi |-> <<"\n">>]
         ELSE Let([c1 \in {SkipToSpace(t, c0)} |->
              [curr |-> c1, ret |-> "word", wi |-> SubSeq(t, c0, c1 - 1)]])])])

\* ------------------------------------------------------------ PageLayout
\* The engine is threaded through the operators below as a record s whose
\* fields are the members of class PageLayout, the page heap (pages, with
\* the ids handed to the observer in delivered and the deleted ones in
\* freed), the font cache, and four history fields the code does not
\* have: appendLog (every instruction as it was appended, with its page and
\* index, in order), handoff (what each page held when it was passed to
\* NewPage), pageStartFont (the current font when each page was started)
\* and lines (every line finalized by JustifyLine, with the mode used).

CurrInstrs(s) == s.pages[s.currPage]

\* currPage->Count()
Count(s) == Len(CurrInstrs(s))

\* PageLayout::IsCurrentLineEmpty
IsCurrentLineEmpty(s) == s.currLineInstrOffset = Count(s)

\* currPage->Append(instr)
AppendInstr(s, instr) ==
    [s EXCEPT !.pages[s.currPage] = Append(@, instr),
              !.appendLog = Append(@, [page |-> s.currPage, idx |-> Count(s) + 1,
                                       instr |-> instr])]

\* PageLayout::AddSetFontInstr
AddSetFontInstr(s, font) == AppendInstr(s, InstrSetFont(font))

\* PageLayout::SetCurrentFont
SetCurrentFont(s, fs) ==
    Let([r \in {GetFont(s.cache, s.fontName, s.fontSize, fs)} |->
    [s EXCEPT !.currFontStyle = fs, !.currFont = r.font, !.cache = r.cache]])

\* ChangeFont as it would be without the SetFont instruction
ChangeFont_NoInstr(s, fs, addStyle) ==
    Let([newFontStyle \in {IF addStyle THEN StyleOr(s.currFontStyle, fs)
         ELSE StyleAndNot(s.currFontStyle, fs)} |->
    IF newFontStyle = s.currFontStyle
    THEN s
    ELSE SetCurrentFont(s, newFontStyle)])

\* ChangeFont as it would be without the test for an unchanged style
ChangeFont_AlwaysInstr(s, fs, addStyle) ==
    Let([newFontStyle \in {IF addStyle THEN StyleOr(s.currFontStyle, fs)
         ELSE StyleAndNot(s.currFontStyle, fs)} |->
    Let([s1 \in {SetCurrentFont(s, newFontStyle)} |->
    AddSetFontInstr(s1, s1.currFont)])])

\* PageLayout::ChangeFont
ChangeFont(s, fs, addStyle) ==
    Let([newFontStyle \in {IF addStyle THEN StyleOr(s.currFontStyle, fs)
         ELSE StyleAndNot(s.currFontStyle, fs)} |->
    IF newFontStyle = s.currFontStyle
    THEN s
    ELSE Let([s1 \in {SetCurrentFont(s, newFontStyle)} |->
         AddSetFontInstr(s1, s1.currFont)])])

\* StartNewPage as it would be without the SetFont carried over to the page
StartNewPage_NoSetFont(s) ==
    IF s.aborted THEN s ELSE
    Let([s1 \in {IF s.currPage # NULL /\ s.pageObserver
         THEN [s EXCEPT !.delivered = Append(@, s.currPage),
                        !.handoff = Append(@, CurrInstrs(s))]
         ELSE [s EXCEPT !.freed = @ \cup ({s.currPage} \ {NULL})]} |->
    Let([s2 \in {[s1 EXCEPT !.pages = Append(@, <<>>),
                    !.currPage = Len(s.pages) + 1,
                    !.curr = [x |-> Zero, y |-> Zero],
                    !.newLinesCount = 0,
                    !.pageStartFont = Append(@, s.currFont)]} |->
    [s2 EXCEPT !.currLineInstrOffset = Count(s2)]])])

\* PageLayout::StartNewPage
StartNewPage(s) ==
    IF s.aborted THEN s ELSE
    Let([s1 \in {IF s.currPage # NULL /\ s.pageObserver
         THEN [s EXCEPT !.delivered = Append(@, s.currPage),
                        !.handoff = Append(@, CurrInstrs(s))]
         ELSE [s EXCEPT !.freed = @ \cup ({s.currPage} \ {NULL})]} |->
    Let([s2 \in {[s1 EXCEPT !.pages = Append(@, <<>>),
                    !.currPage = Len(s.pages) + 1,
                    !.curr = [x |-> Zero, y |-> Zero],
                    !.newLinesCount = 0,
                    !.pageStartFont = Append(@, s.currFont)]} |->
    Let([s3 \in {AddSetFontInstr(s2, s2.currFont)} |->
    [s3 EXCEPT !.currLineInstrOffset = Count(s3)]])])])

\* PageLayout::GetCurrentLineDx
RECURSIVE LineDxFrom(_, _, _, _)
LineDxFrom(instrs, i, dx, space) ==
    IF i > Len(instrs) THEN dx
    ELSE IF instrs[i].type = InstrTypeString
         THEN LineDxFrom(instrs, i + 1,
                         RAdd(RAdd(dx, instrs[i].bbox.Width), space), space)
         ELSE LineDxFrom(instrs, i + 1, dx, space)

GetCurrentLineDx(s) ==
    Let([dx \in {LineDxFrom(CurrInstrs(s), s.currLineInstrOffset + 1,
                    RSub(Zero, s.spaceDx), s.spaceDx)} |->
    IF RLt(dx, Zero) THEN Zero ELSE dx])

\* PageLayout::LayoutLeftStartingAt
RECURSIVE LayoutLeftFrom(_, _, _, _, _)
LayoutLeftFrom(instrs, i, x, y, space) ==
    IF i > Len(instrs) THEN [instrs |-> instrs, x |-> x]
    ELSE IF instrs[i].type = InstrTypeString
         THEN LayoutLeftFrom([instrs EXCEPT ![i].bbox.X = x, ![i].bbox.Y = y],
                             i + 1,
                             RAdd(x, RAdd(instrs[i].bbox.Width, space)), y, space)
         ELSE LayoutLeftFrom(instrs, i + 1, x, y, space)

LayoutLeftStartingAt(s, offX) ==
    Let([r \in {LayoutLeftFrom(CurrInstrs(s), s.currLineInstrOffset + 1, offX,
                        s.curr.y, s.spaceDx)} |->
    [s EXCEPT !.pages[s.currPage] = r.instrs, !.curr.x = r.x]])

\* PageLayout::JustifyLineBoth
JustifyLineBoth(s) ==
    Let([margin \in {RSub(s.pageSize.dx, GetCurrentLineDx(s))} |->
    Let([s1 \in {LayoutLeftStartingAt(s, Zero)} |->
    Let([count \in {Count(s1) - s1.currLineInstrOffset} |->
    Let([extraSpaceDx \in {IF count > 1 THEN RDiv(margin, R(count - 1)) ELSE margin} |->
    [s1 EXCEPT !.pages[s1.currPage] =
        [i \in 1..Count(s1) |->
            IF i > s1.currLineInstrOffset + 1
            THEN [CurrInstrs(s1)[i] EXCEPT
                    !.bbox.X = RAdd(@, RMul(R(i - (s1.currLineInstrOffset + 1)),
                                            extraSpaceDx))]
            ELSE CurrInstrs(s1)[i]]]])])])])

\* assert(0): a build with asserts stops the program here (aborted); a
\* build without them (s.ndebug) goes on, and the run is from then on known
\* to be of such a build (assertsOff)
AssertFails(s) ==
    IF s.ndebug THEN [s EXCEPT !.assertsOff = TRUE]
    ELSE [s EXCEPT !.aborted = TRUE]

\* PageLayout::JustifyLine
JustifyLine(s, mode) ==
    IF s.aborted \/ IsCurrentLineEmpty(s) THEN s
    ELSE Let([s1 \in {CASE mode = Align_Left -> LayoutLeftStartingAt(s, Zero)
                [] mode = Align_Right ->
                     LayoutLeftStartingAt(s,
                         RSub(s.pageSize.dx, GetCurrentLineDx(s)))
                [] mode = Align_Center ->
                     LayoutLeftStartingAt(s,
                         RDiv(RSub(s.pageSize.dx, GetCurrentLineDx(s)), R(2)))
                [] mode = Align_Justify -> JustifyLineBoth(s)
                [] OTHER -> AssertFails(s)} |->
         IF s1.aborted THEN s1
         ELSE [s1 EXCEPT !.currLineInstrOffset = Count(s1),
                         !.lines = Append(@, [page |-> s.currPage,
                                              from |-> s.currLineInstrOffset + 1,
                                              to |-> Count(s),
                                              mode |-> mode])]])

\* StartNewLine as it would be if the page test forgot the next line's height
StartNewLine_LateBreak(s, isParagraphBreak) ==
    IF s.aborted \/ (s.curr.y = Zero /\ IsCurrentLineEmpty(s)) THEN s
    ELSE Let([s1 \in {IF isParagraphBreak /\ s.currJustification = Align_Justify
              THEN JustifyLine(s, Align_Left)
              ELSE JustifyLine(s, s.currJustification)} |->
         IF s1.aborted THEN s1 ELSE
         Let([s2 \in {[s1 EXCEPT !.curr = [x |-> Zero,
                                   y |-> RAdd(s1.curr.y, s1.lineSpacing)],
                         !.currLineInstrOffset = Count(s1)]} |->
         IF RLt(s2.pageSize.dy, s2.curr.y)
         THEN StartNewPage(s2)
         ELSE s2])])

\* StartNewLine as it would be if a paragraph break justified like any other
StartNewLine_NoParagraph(s, isParagraphBreak) ==
    IF s.aborted \/ (s.curr.y = Zero /\ IsCurrentLineEmpty(s)) THEN s
    ELSE Let([s1 \in {JustifyLine(s, s.currJustification)} |->
         IF s1.aborted THEN s1 ELSE
         Let([s2 \in {[s1 EXCEPT !.curr = [x |-> Zero,
                                   y |-> RAdd(s1.curr.y, s1.lineSpacing)],
                         !.currLineInstrOffset = Count(s1)]} |->
         IF RLt(s2.pageSize.dy, RAdd(s2.curr.y, s2.lineSpacing))
         THEN StartNewPage(s2)
         ELSE s2])])

\* PageLayout::StartNewLine
StartNewLine(s, isParagraphBreak) ==
    IF s.aborted \/ (s.curr.y = Zero /\ IsCurrentLineEmpty(s)) THEN s
    ELSE Let([s1 \in {IF isParagraphBreak /\ s.currJustification = Align_Justify
              THEN JustifyLine(s, Align_Left)
              ELSE JustifyLine(s, s.currJustification)} |->
         IF s1.aborted THEN s1 ELSE
         Let([s2 \in {[s1 EXCEPT !.curr = [x |-> Zero,
                                   y |-> RAdd(s1.curr.y, s1.lineSpacing)],
                         !.currLineInstrOffset = Count(s1)]} |->
         IF RLt(s2.pageSize.dy, RAdd(s2.curr.y, s2.lineSpacing))
         THEN StartNewPage(s2)
         ELSE s2])])

\* AddHr as it would be without the line break after the rule
AddHr_NoBreakAfter(s) ==
    Let([s1 \in {StartNewLine(s, TRUE)} |->
    IF s1.aborted THEN s1 ELSE
    Let([s2 \in {[s1 EXCEPT !.curr.x = Zero]} |->
    Let([s3 \in {IF RLt(s2.pageSize.dy, RAdd(s2.curr.y, s2.lineSpacing))
         THEN StartNewPage(s2)
         ELSE s2} |->
    AppendInstr(s3, InstrLine(RectF(s3.curr.x, s3.curr.y, s3.pageSize.dx,
                                    s3.lineSpacing)))])])])

\* PageLayout::AddHr
AddHr(s) ==
    Let([s1 \in {StartNewLine(s, TRUE)} |->
    IF s1.aborted THEN s1 ELSE
    Let([s2 \in {[s1 EXCEPT !.curr.x = Zero]} |->
    Let([s3 \in {IF RLt(s2.pageSize.dy, RAdd(s2.curr.y, s2.lineSpacing))
         THEN StartNewPage(s2)
         ELSE s2} |->
    StartNewLine(AppendInstr(s3, InstrLine(RectF(s3.curr.x, s3.curr.y,
                                                 s3.pageSize.dx,
                                                 s3.lineSpacing))),
                 TRUE)])])])

\* WordInfo::IsNewline
IsNewline(wi) == Len(wi) = 1 /\ wi[1] = "\n"

\* AddWord as it would be if every newline from the second on broke the
\* paragraph (2 <= newLinesCount)
AddWord_EveryNewline(s, wi) ==
    IF s.aborted THEN s ELSE
    IF IsNewline(wi)
    THEN Let([s1 \in {[s EXCEPT !.newLinesCount = @ + 1]} |->
         IF s1.newLinesCount >= 2
         THEN Let([s2 \in {StartNewLine(s1, TRUE)} |->
              IF s1.curr.x # Zero THEN StartNewLine(s2, TRUE) ELSE s2])
         ELSE s1])
    ELSE Let([s1 \in {[s EXCEPT !.newLinesCount = 0]} |->
         Let([m \in {MeasureText(s1.cache, s1.currFont, wi, s1.lineSpacing)} |->
         Let([s2 \in {IF RLt(s1.pageSize.dx, RAdd(s1.curr.x, m.Width))
              THEN StartNewLine(s1, FALSE)
              ELSE s1} |->
         IF s2.aborted THEN s2 ELSE
         Let([s3 \in {AppendInstr(s2, InstrStr(wi, [m EXCEPT !.Y = s2.curr.y]))} |->
         [s3 EXCEPT !.curr.x = RAdd(@, RAdd(m.Width, s3.spaceDx))]])])])])

\* PageLayout::AddWord
AddWord(s, wi) ==
    IF s.aborted THEN s ELSE
    IF IsNewline(wi)
    THEN Let([s1 \in {[s EXCEPT !.newLinesCount = @ + 1]} |->
         IF s1.newLinesCount = 2
         THEN Let([s2 \in {StartNewLine(s1, TRUE)} |->
              IF s1.curr.x # Zero THEN StartNewLine(s2, TRUE) ELSE s2])
         ELSE s1])
    ELSE Let([s1 \in {[s EXCEPT !.newLinesCount = 0]} |->
         Let([m \in {MeasureText(s1.cache, s1.currFont, wi, s1.lineSpacing)} |->
         Let([s2 \in {IF RLt(s1.pageSize.dx, RAdd(s1.curr.x, m.Width))
              THEN StartNewLine(s1, FALSE)
              ELSE s1} |->
         IF s2.aborted THEN s2 ELSE
         Let([s3 \in {AppendInstr(s2, InstrStr(wi, [m EXCEPT !.Y = s2.curr.y]))} |->
         [s3 EXCEPT !.curr.x = RAdd(@, RAdd(m.Width, s3.spaceDx))]])])])])

\* PageLayout::AddImage; data.ok is whether BitmapFromData decodes it. The
\* image is scaled (by factor, 1 when it fits) to the room left on the page.
AddImage(s, data) ==
    IF s.aborted \/ ~data.ok THEN s
    ELSE Let([s1 \in {StartNewLine(s, FALSE)} |->
         IF s1.aborted THEN s1 ELSE
         Let([s2 \in {IF RLt(RSub(s1.pageSize.dy, s1.curr.y), RDiv(R(data.h), R(2)))
              THEN StartNewPage(s1)
              ELSE s1} |->
         Let([factor \in {IF \/ RLt(s2.pageSize.dx, R(data.w))
                 \/ RLt(RSub(s2.pageSize.dy, s2.curr.y), R(data.h))
              THEN RMin(RDiv(s2.pageSize.dx, R(data.w)),
                        RDiv(RSub(s2.pageSize.dy, s2.curr.y), R(data.h)))
              ELSE R(1)} |->
         Let([img \in {RectF(RAdd(s2.curr.x,
                         RDiv(RSub(s2.pageSize.dx, RMul(R(data.w), factor)),
                              R(2))),
                    s2.curr.y,
                    RMul(R(data.w), factor),
                    RMul(R(data.h), factor))} |->
         Let([s3 \in {AppendInstr([s2 EXCEPT !.curr.x = img.X],
                          InstrImage(data, img))} |->
         StartNewLine([s3 EXCEPT !.curr.y = RAdd(@, img.Height)], FALSE)])])])])])

\* ------------------------------------------------------------ tokens
Tag_P == "p"
Tag_Hr == "hr"
Tag_B == "b"
Tag_Strong == "strong"
Tag_I == "i"
Tag_Em == "em"
Tag_U == "u"
Tag_Strike == "strike"
Tag_Pagebreak == "pagebreak"
Tag_Mbp_Pagebreak == "mbp:pagebreak"
Tag_Img == "img"
Tag_Style == "style"

Aligns == {Align_Left, Align_Right, Align_Center, Align_Justify}

\* pixel sizes of the images the document holds
ImgDims == {2, 13}
Images == {[ok |-> TRUE, w |-> w, h |-> h] : w \in ImgDims, h \in ImgDims}

\* HtmlToken::type of a tag token
StartTag == "start"
EndTag == "end"
EmptyElementTag == "empty"

\* A tag token: its tag, its type, the value FindAlignAttr gives for its
\* last align attribute ("" when it has none) and, in attribute order, the
\* images doc->GetImageData resolves its src / recindex attributes to (none
\* when there is no document, no such attribute or no data for it).
Tag(tag, type, align, imgs) ==
    [tag |-> tag, type |-> type, align |-> align, imgs |-> imgs]

IsStartTag(t) == t.type = StartTag
IsEndTag(t) == t.type = EndTag

\* no tag token
NoTag == Tag("", EndTag, "", <<>>)

TagTokens ==
    {Tag(Tag_P, StartTag, a, <<>>) : a \in Aligns \cup {"", Align_NotFound}}
    \cup {Tag(Tag_P, EndTag, "", <<>>)}
    \cup {Tag(g, st, "", <<>>) : g \in {Tag_Hr, Tag_B, Tag_Pagebreak, Tag_Style},
                                st \in {StartTag, EndTag}}
    \cup {Tag(g, StartTag, "", <<>>) : g \in {Tag_Strong, Tag_Em, Tag_Mbp_Pagebreak}}
    \cup {Tag(Tag_Strong, EndTag, "", <<>>)}
    \cup {Tag(Tag_Img, StartTag, "", ds) : ds \in {<<d>> : d \in Images} \cup {<<>>}}
    \cup {Tag(Tag_Img, StartTag, "",
               <<[ok |-> TRUE, w |-> 2, h |-> 2], [ok |-> TRUE, w |-> 2, h |-> 2]>>),
          Tag(Tag_Img, EmptyElementTag, "", <<[ok |-> TRUE, w |-> 2, h |-> 2]>>),
          Tag(Tag_Img, EndTag, "", <<>>)}

\* the text tokens of at most maxLen characters over the characters cs
Texts(cs, maxLen) == UNION {[1..n -> cs] : n \in 1..maxLen}

\* RecordStartTag(&tagNesting, tag): the tag is pushed on the stack of open
\* tags
RecordStartTag(s, tag) == [s EXCEPT !.tagNesting = Append(@, tag)]

\* RecordEndTag(&tagNesting, tag): the stack is cut back to below the last
\* open tag of that name; an end tag that matches no open tag is ignored
RecordEndTag(s, tag) ==
    Let([open \in {{i \in 1..Len(s.tagNesting) : s.tagNesting[i] = tag}} |->
    IF open = {} THEN s
    ELSE [s EXCEPT !.tagNesting = SubSeq(@, 1, Max(open) - 1)]])

\* the attribute loop of the img tag: AddImage for every src / recindex
\* attribute the document has data for, from the i-th on
RECURSIVE AddImages(_, _, _)
AddImages(s, imgs, i) ==
    IF i > Len(imgs) THEN s ELSE AddImages(AddImage(s, imgs[i]), imgs, i + 1)

\* PageLayout::HandleHtmlTag
HandleHtmlTag(s, t) ==
    Let([s0 \in {IF IsStartTag(t) THEN RecordStartTag(s, t.tag)
                 ELSE IF IsEndTag(t) THEN RecordEndTag(s, t.tag)
                 ELSE s} |->
    CASE t.tag = Tag_P ->
           Let([s1 \in {StartNewLine(s0, TRUE)} |->
           IF s1.aborted THEN s1
           ELSE [s1 EXCEPT !.currJustification =
                    IF IsStartTag(t) /\ t.align # "" THEN t.align
                    ELSE Align_Justify]])
      [] t.tag = Tag_Hr -> AddHr(s0)
      [] t.tag \in {Tag_B, Tag_Strong} ->
           ChangeFont(s0, FontStyleBold, IsStartTag(t))
      [] t.tag \in {Tag_I, Tag_Em} ->
           ChangeFont(s0, FontStyleItalic, IsStartTag(t))
      [] t.tag = Tag_U -> ChangeFont(s0, FontStyleUnderline, IsStartTag(t))
      [] t.tag = Tag_Strike -> ChangeFont(s0, FontStyleStrikeout, IsStartTag(t))
      [] t.tag \in {Tag_Pagebreak, Tag_Mbp_Pagebreak} ->
           StartNewPage(JustifyLine(s0, s0.currJustification))
      [] t.tag = Tag_Img ->
           IF IsEndTag(t) THEN s0 ELSE AddImages(s0, t.imgs, 1)
      [] OTHER -> s0])

\* SkipWs(curr, end) and SkipNonWs(curr, end) over the characters of t
RECURSIVE SkipWs(_, _)
SkipWs(t, i) == IF i <= Len(t) /\ IsWs(t[i]) THEN SkipWs(t, i + 1) ELSE i

RECURSIVE SkipNonWs(_, _)
SkipNonWs(t, i) == IF i <= Len(t) /\ ~IsWs(t[i]) THEN SkipNonWs(t, i + 1) ELSE i

\* PageLayout::EmitText: the while loop from position curr on
RECURSIVE EmitTextFrom(_, _, _)
EmitTextFrom(s, t, curr0) ==
    IF curr0 > Len(t) THEN s
    ELSE Let([curr1 \in {SkipNonWs(t, curr0)} |->
         EmitTextFrom(IF curr1 - curr0 > 0
                      THEN AddWord(s, SubSeq(t, curr0, curr1 - 1))
                      ELSE s,
                      t, SkipWs(t, curr1))])

\* the content of <style> tags is ignored
EmitText(s, t) ==
    IF \E i \in 1..Len(s.tagNesting) : s.tagNesting[i] = Tag_Style THEN s
    ELSE EmitTextFrom(s, t, SkipWs(t, 1))

\* the end of Process as it would be without sending the last page
ProcessFlush_NoLastPage(s) == StartNewLine(s, TRUE)

\* the end of PageLayout::Process, after the token loop
ProcessFlush(s) ==
    Let([s1 \in {StartNewLine(s, TRUE)} |->
    IF s1.aborted THEN s1
    ELSE IF s1.currPage # NULL /\ Count(s1) > 0 THEN StartNewPage(s1) ELSE s1])

\* PageLayout::StartLayout; li.height is currFont->GetHeight(&gfx)
StartLayoutOp(s, li) ==
    Let([s1 \in {[s EXCEPT !.pageSize = [dx |-> R(li.dx), dy |-> R(li.dy)],
                   !.fontName = li.fontName,
                   !.fontSize = li.fontSize,
                   !.currJustification = Align_Justify]} |->
    Let([s2 \in {SetCurrentFont(s1, FontStyleRegular)} |->
    StartNewPage([s2 EXCEPT !.lineSpacing = R(li.height),
                            !.spaceDx = RDiv(R(li.fontSize), Norm(5, 2))])])])

\* the LayoutInfo records the sessions are started with: a narrow page of
\* exactly two lines, a wide page of three lines and a bit, a page lower
\* than one line, and a page under a font of size 6, whose spaceDx = 6 / 2.5f
\* is not a whole number
LayoutInfos ==
    { [dx |-> 7, dy |-> 8, fontName |-> "F", fontSize |-> 5, height |-> 4],
      [dx |-> 13, dy |-> 13, fontName |-> "F", fontSize |-> 5, height |-> 4],
      [dx |-> 11, dy |-> 3, fontName |-> "F", fontSize |-> 5, height |-> 4],
      [dx |-> 9, dy |-> 8, fontName |-> "F", fontSize |-> 6, height |-> 4] }

\* ------------------------------------------------------------ state
\* pc: where the session is (new, ready, run, done, gone); ntok: tokens
\* consumed; aborted: an assert has stopped the program; assertsOff: an
\* assert(0) was passed over, so the build is one without asserts.
\* History variables the code does not have: lastTok and nlRun (the kind of
\* the last token and the length of the current run of newline tokens, -1
\* once a tag has come between its newlines), hrCount (rule tags handled)
\* and lastText (the last text token of specification SpecEmitText),
\* lastTag (the last tag token handled between words), tagLog (the style
\* tags handled in specification SpecStyle, in order) and fontCalls (every
\* call of FontCache::GetFont made on the cache directly, with its result).
\* A WordsIter object: wiS (the string), wiCurr (the read position, from 1;
\* end is Len(wiS) + 1), wiRet (what the last call of Next returned: "none"
\* before the iterator exists, "new" before the first call, then "word",
\* "newline", "NULL", or "abort" when the assert stopped the program) and
\* wiOut (the tokens returned since construction or Reset).
VARIABLES pc, ntok, lastTok, nlRun, hrCount, lastText, lastTag, tagLog,
          fontCalls,
          wiS, wiCurr, wiRet, wiOut,
          pageObserver, pageSize, lineSpacing, spaceDx, fontName, fontSize,
          currFontStyle, currFont, currJustification, curr, newLinesCount,
          currPage, currLineInstrOffset, pages, delivered, freed, cache,
          appendLog, handoff, pageStartFont, lines,
          tagNesting, assertsOff, aborted,
          cacheDeleted, fontsDeleted

vars == <<pc, ntok, lastTok, nlRun, hrCount, lastText, lastTag, tagLog,
          fontCalls,
          wiS, wiCurr, wiRet, wiOut,
          pageObserver, pageSize, lineSpacing, spaceDx, fontName, fontSize,
          currFontStyle, currFont, currJustification, curr, newLinesCount,
          currPage, currLineInstrOffset, pages, delivered, freed, cache,
          appendLog, handoff, pageStartFont, lines,
          tagNesting, assertsOff, aborted,
          cacheDeleted, fontsDeleted>>

\* the variables of the words iterator
iterVars == <<wiS, wiCurr, wiRet, wiOut>>

\* the end of the font cache: cacheDeleted (~FontCache has run) and
\* fontsDeleted (the Font objects it has deleted)
cacheVars == <<cacheDeleted, fontsDeleted>>

\* the engine as a record
Self ==
    [pageObserver |-> pageObserver, pageSize |-> pageSize,
     lineSpacing |-> lineSpacing, spaceDx |-> spaceDx, fontName |-> fontName,
     fontSize |-> fontSize, currFontStyle |-> currFontStyle,
     currFont |-> currFont, currJustification |-> currJustification,
     curr |-> curr, newLinesCount |-> newLinesCount, currPage |-> currPage,
     currLineInstrOffset |-> currLineInstrOffset, pages |-> pages,
     delivered |-> delivered, freed |-> freed, cache |-> cache,
     appendLog |-> appendLog, handoff |-> handoff,
     pageStartFont |-> pageStartFont, lines |-> lines,
     tagNesting |-> tagNesting, assertsOff |-> assertsOff,
     ndebug |-> assertsOff, aborted |-> aborted]

\* the builds the run can still be of, and the engine as a build nd runs it
Builds == IF assertsOff THEN {TRUE} ELSE BOOLEAN
SelfIn(nd) == [Self EXCEPT !.ndebug = nd]

Commit(s) ==
    /\ pageObserver' = s.pageObserver
    /\ pageSize' = s.pageSize
    /\ lineSpacing' = s.lineSpacing
    /\ spaceDx' = s.spaceDx
    /\ fontName' = s.fontName
    /\ fontSize' = s.fontSize
    /\ currFontStyle' = s.currFontStyle
    /\ currFont' = s.currFont
    /\ currJustification' = s.currJustification
    /\ curr' = s.curr
    /\ newLinesCount' = s.newLinesCount
    /\ currPage' = s.currPage
    /\ currLineInstrOffset' = s.currLineInstrOffset
    /\ pages' = s.pages
    /\ delivered' = s.delivered
    /\ freed' = s.freed
    /\ cache' = s.cache
    /\ appendLog' = s.appendLog
    /\ handoff' = s.handoff
    /\ pageStartFont' = s.pageStartFont
    /\ lines' = s.lines
    /\ tagNesting' = s.tagNesting
    /\ assertsOff' = s.assertsOff
    /\ aborted' = s.aborted

\* PageLayout::PageLayout: currPage and pageObserver are NULL, the font
\* cache is the caller's (empty here); the other members are set by
\* StartLayout before they are read.
Init ==
    /\ pc = "new"
    /\ ntok = 0
    /\ lastTok = "none"
    /\ nlRun = 0
    /\ hrCount = 0
    /\ lastText = <<>>
    /\ lastTag = NoTag
    /\ tagLog = <<>>
    /\ fontCalls = <<>>
    /\ cacheDeleted = FALSE
    /\ fontsDeleted = {}
    /\ wiS = <<>>
    /\ wiCurr = 1
    /\ wiRet = "none"
    /\ wiOut = <<>>
    /\ pageObserver = FALSE
    /\ pageSize = [dx |-> Zero, dy |-> Zero]
    /\ lineSpacing = Zero
    /\ spaceDx = Zero
    /\ fontName = ""
    /\ fontSize = 0
    /\ currFontStyle = FontStyleRegular
    /\ currFont = NULL
    /\ currJustification = Align_Justify
    /\ curr = [x |-> Zero, y |-> Zero]
    /\ newLinesCount = 0
    /\ currPage = NULL
    /\ currLineInstrOffset = 0
    /\ pages = <<>>
    /\ delivered = <<>>
    /\ freed = {}
    /\ cache = <<>>
    /\ appendLog = <<>>
    /\ handoff = <<>>
    /\ pageStartFont = <<>>
    /\ lines = <<>>
    /\ tagNesting = <<>>
    /\ assertsOff = FALSE
    /\ aborted = FALSE

\* LayoutHtml: l.StartLayout(li)
StartLayout ==
    /\ pc = "new"
    /\ \E li \in LayoutInfos : Commit(StartLayoutOp(Self, li))
    /\ pc' = "ready"
    /\ UNCHANGED <<ntok, lastTok, nlRun, hrCount, lastText>>
    /\ UNCHANGED <<lastTag, tagLog, fontCalls, cacheVars, iterVars>>

\* PageLayout::Process, first statement: the observer (NULL or not)
ProcessBegin ==
    /\ pc = "ready"
    /\ \E obs \in BOOLEAN : Commit([Self EXCEPT !.pageObserver = obs])
    /\ pc' = "run"
    /\ UNCHANGED <<ntok, lastTok, nlRun, hrCount, lastText>>
    /\ UNCHANGED <<lastTag, tagLog, fontCalls, cacheVars, iterVars>>

\* one iteration of the token loop on a tag token
ProcessTag ==
    /\ pc = "run"
    /\ ~aborted
    /\ ntok < MaxTokens
    /\ \E t \in TagTokens, nd \in Builds :
          /\ Commit(HandleHtmlTag(SelfIn(nd), t))
          /\ hrCount' = IF t.tag = Tag_Hr THEN hrCount + 1 ELSE hrCount
    /\ ntok' = ntok + 1
    /\ UNCHANGED <<pc, lastTok, nlRun, lastText>>
    /\ UNCHANGED <<lastTag, tagLog, fontCalls, cacheVars, iterVars>>

\* one iteration of the token loop on a text token
ProcessText ==
    /\ pc = "run"
    /\ ~aborted
    /\ ntok < MaxTokens
    /\ \E t \in Texts({"a", " "}, MaxTextLen), nd \in Builds :
          Commit(EmitText(SelfIn(nd), t))
    /\ ntok' = ntok + 1
    /\ UNCHANGED <<pc, lastTok, nlRun, hrCount, lastText>>
    /\ UNCHANGED <<lastTag, tagLog, fontCalls, cacheVars, iterVars>>

\* the token source is exhausted or reports an error: the final flush
ProcessEnd ==
    /\ pc = "run"
    /\ ~aborted
    /\ \E nd \in Builds : Commit(ProcessFlush(SelfIn(nd)))
    /\ pc' = IF aborted' THEN "run" ELSE "done"
    /\ UNCHANGED <<ntok, lastTok, nlRun, hrCount, lastText>>
    /\ UNCHANGED <<lastTag, tagLog, fontCalls, cacheVars, iterVars>>

\* PageLayout::~PageLayout: delete currPage (the token source, deleted with
\* it, is not part of the state)
DeletePageLayout(s) == [s EXCEPT !.freed = @ \cup ({s.currPage} \ {NULL})]

\* LayoutHtml, closing brace: the engine goes out of scope
LayoutHtmlEnd ==
    /\ pc = "done"
    /\ Commit(DeletePageLayout(Self))
    /\ pc' = "gone"
    /\ UNCHANGED <<ntok, lastTok, nlRun, hrCount, lastText>>
    /\ UNCHANGED <<lastTag, tagLog, fontCalls, cacheVars, iterVars>>

Next ==
    \/ StartLayout \/ ProcessBegin \/ ProcessTag \/ ProcessText
    \/ ProcessEnd \/ LayoutHtmlEnd

Spec == Init /\ [][Next]_vars

\* ------------------------------------------------- AddWord on its own
\* The tokens a words iterator hands to AddWord: words and the newline token.
WordTokens == {<<"a">>, <<"a", "a">>, <<"\n">>}

\* the tags that come between them
WordTags == {Tag(Tag_B, st, "", <<>>) : st \in {StartTag, EndTag}}
            \cup {Tag(Tag_Hr, StartTag, "", <<>>)}
            \cup {Tag(Tag_P, StartTag, "", <<>>)}

\* AddWord(wi) called on the running session
AddWordStep ==
    /\ pc = "run"
    /\ ntok < MaxWordTokens
    /\ \E wi \in WordTokens :
          /\ Commit(AddWord(Self, wi))
          /\ lastTok' = IF IsNewline(wi) THEN "newline" ELSE "word"
          /\ nlRun' = IF ~IsNewline(wi) THEN 0
                      ELSE IF nlRun = -1 THEN -1 ELSE nlRun + 1
    /\ ntok' = ntok + 1
    /\ UNCHANGED <<pc, hrCount, lastText>>
    /\ UNCHANGED <<lastTag, tagLog, fontCalls, cacheVars, iterVars>>

\* HandleHtmlTag(t) between two calls of AddWord
WordTagStep ==
    /\ pc = "run"
    /\ ntok < MaxWordTokens
    /\ \E t \in WordTags :
          /\ Commit(HandleHtmlTag(Self, t))
          /\ hrCount' = IF t.tag = Tag_Hr THEN hrCount + 1 ELSE hrCount
          /\ lastTag' = t
    /\ lastTok' = "tag"
    /\ nlRun' = IF nlRun # 0 THEN -1 ELSE 0
    /\ ntok' = ntok + 1
    /\ UNCHANGED <<pc, lastText>>
    /\ UNCHANGED <<tagLog, fontCalls, cacheVars, iterVars>>

NextAddWord ==
    StartLayout \/ ProcessBegin \/ AddWordStep \/ WordTagStep \/ ProcessEnd

SpecAddWord == Init /\ [][NextAddWord]_vars

\* ------------------------------------------------- one text token
\* Process on a token source that yields text tokens with line endings
EmitTextStep ==
    /\ pc = "run"
    /\ ntok < MaxParaTokens
    /\ \E t \in Texts(Chars, MaxParaLen) :
          /\ Commit(EmitText(Self, t))
          /\ lastText' = t
    /\ ntok' = ntok + 1
    /\ UNCHANGED <<pc, lastTok, nlRun, hrCount>>
    /\ UNCHANGED <<lastTag, tagLog, fontCalls, cacheVars, iterVars>>

NextEmitText == StartLayout \/ ProcessBegin \/ EmitTextStep \/ ProcessEnd

SpecEmitText == Init /\ [][NextEmitText]_vars

\* ------------------------------------------------- the words iterator
sessionVars ==
    <<pc, ntok, lastTok, nlRun, hrCount, lastText, lastTag, tagLog>>
pageVars ==
    <<pageObserver, pageSize, lineSpacing, spaceDx, fontName, fontSize,
      currFontStyle, currFont, currJustification, curr, newLinesCount,
      currPage, currLineInstrOffset, pages, delivered, freed, appendLog,
      handoff, pageStartFont, lines, tagNesting, assertsOff, aborted>>

\* WordsIter::WordsIter(s)
WordsIterNew ==
    /\ wiRet = "none"
    /\ \E t \in Texts(IterChars, MaxIterLen) : wiS' = t
    /\ wiCurr' = 1
    /\ wiRet' = "new"
    /\ wiOut' = <<>>
    /\ UNCHANGED <<sessionVars, pageVars, cache, fontCalls, cacheVars>>

\* WordsIter::Reset
WordsIterReset ==
    /\ wiRet \notin {"none", "abort"}
    /\ wiCurr' = 1
    /\ wiRet' = "new"
    /\ wiOut' = <<>>
    /\ UNCHANGED <<wiS, sessionVars, pageVars, cache, fontCalls, cacheVars>>

\* WordsIter::Next. When the word found is empty, assert(wi.len > 0) stops
\* the program in a build with asserts, and the empty word is returned in a
\* build without them.
WordsIterNextStep ==
    /\ wiRet \notin {"none", "abort"}
    /\ Len(wiOut) < MaxIterCalls
    /\ \E r \in {WordsIterNext(wiS, wiCurr)} :
          /\ wiCurr' = r.curr
          /\ \/ /\ r.ret = "word" /\ r.wi = <<>>
                /\ wiRet' = "abort"
                /\ wiOut' = wiOut
             \/ /\ wiRet' = r.ret
                /\ wiOut' = IF r.ret = "NULL" THEN wiOut ELSE Append(wiOut, r.wi)
    /\ UNCHANGED <<wiS, sessionVars, pageVars, cache, fontCalls, cacheVars>>

NextWordsIter == WordsIterNew \/ WordsIterReset \/ WordsIterNextStep

SpecWordsIter == Init /\ [][NextWordsIter]_vars

\* ------------------------------------------------- aligned paragraphs
\* paragraph tags with an align attribute, and the bold tags
AlignTags ==
    {Tag(Tag_P, StartTag, a, <<>>) : a \in {Align_Right, Align_Center}}
    \cup {Tag(Tag_B, st, "", <<>>) : st \in {StartTag, EndTag}}

\* one iteration of the token loop, on a tag or on a text token
AlignTagStep ==
    /\ pc = "run"
    /\ ntok < MaxAlignTokens
    /\ \E t \in AlignTags : Commit(HandleHtmlTag(Self, t))
    /\ ntok' = ntok + 1
    /\ UNCHANGED <<pc, lastTok, nlRun, hrCount, lastText, lastTag, tagLog>>
    /\ UNCHANGED <<fontCalls, cacheVars, iterVars>>

AlignTextStep ==
    /\ pc = "run"
    /\ ntok < MaxAlignTokens
    /\ \E t \in Texts({"a", " "}, MaxAlignTextLen) : Commit(EmitText(Self, t))
    /\ ntok' = ntok + 1
    /\ UNCHANGED <<pc, lastTok, nlRun, hrCount, lastText, lastTag, tagLog>>
    /\ UNCHANGED <<fontCalls, cacheVars, iterVars>>

NextAlign ==
    StartLayout \/ ProcessBegin \/ AlignTagStep \/ AlignTextStep \/ ProcessEnd

SpecAlign == Init /\ [][NextAlign]_vars

\* ------------------------------------------------- style tags
\* the start and end tags of the four text styles
StyleTags ==
    {Tag(g, st, "", <<>>) : g \in {Tag_B, Tag_Strong, Tag_I, Tag_Em, Tag_U,
                                  Tag_Strike},
                            st \in {StartTag, EndTag}}

\* one iteration of the token loop on a style tag
StyleTagStep ==
    /\ pc = "run"
    /\ ntok < MaxStyleTags
    /\ \E t \in StyleTags :
          /\ Commit(HandleHtmlTag(Self, t))
          /\ tagLog' = Append(tagLog, t)
    /\ ntok' = ntok + 1
    /\ UNCHANGED <<pc, lastTok, nlRun, hrCount, lastText, lastTag>>
    /\ UNCHANGED <<fontCalls, cacheVars, iterVars>>

NextStyle == StartLayout \/ ProcessBegin \/ StyleTagStep \/ ProcessEnd

SpecStyle == Init /\ [][NextStyle]_vars

\* ------------------------------------------------- the font cache
\* the fonts asked for: two installed families and one that is not
FontNames == InstalledFonts \cup {"X"}
FontSizes == {5, 6}
FontStyles == {FontStyleRegular, FontStyleBold}

FontCall(name, size, style, font) ==
    [name |-> name, size |-> size, style |-> style, font |-> font]

\* FontCache::~FontCache: the name of every entry is freed and its Font
\* deleted; the Vec of entries goes with the object
DeleteFontCache(c) ==
    [cache |-> <<>>, deleted |-> {c[i].font : i \in 1..Len(c)}]

\* FontCache::GetFont called on the cache, while the object exists
GetFontStep ==
    /\ ~cacheDeleted
    /\ Len(fontCalls) < MaxFontCalls
    /\ \E name \in FontNames, size \in FontSizes, style \in FontStyles :
          \E r \in {GetFont(cache, name, size, style)} :
              /\ cache' = r.cache
              /\ fontCalls' = Append(fontCalls,
                                     FontCall(name, size, style, r.font))
    /\ UNCHANGED <<sessionVars, pageVars, iterVars, cacheVars>>

\* StartLayout of an engine that shares the cache, with any of the fonts
StartLayoutFont ==
    /\ pc = "new"
    /\ ~cacheDeleted
    /\ Len(fontCalls) < MaxFontCalls
    /\ \E li \in LayoutInfos, name \in FontNames :
          /\ Commit(StartLayoutOp(Self, [li EXCEPT !.fontName = name]))
          /\ fontCalls' = Append(fontCalls,
                                 FontCall(name, li.fontSize, FontStyleRegular,
                                          currFont'))
    /\ pc' = "ready"
    /\ UNCHANGED <<ntok, lastTok, nlRun, hrCount, lastText, lastTag, tagLog,
                   iterVars, cacheVars>>

\* the owner of the cache destroys it
FontCacheEnd ==
    /\ ~cacheDeleted
    /\ \E r \in {DeleteFontCache(cache)} :
          /\ cache' = r.cache
          /\ fontsDeleted' = fontsDeleted \cup r.deleted
    /\ cacheDeleted' = TRUE
    /\ UNCHANGED <<sessionVars, pageVars, iterVars, fontCalls>>

NextFontCache == GetFontStep \/ StartLayoutFont \/ FontCacheEnd

SpecFontCache == Init /\ [][NextFontCache]_vars

\* ------------------------------------------------------------ claims
Started == pc # "new"
PageIds == 1..Len(pages)
DeliveredIds == {delivered[i] : i \in 1..Len(delivered)}
InstrIdx(p) == 1..Len(pages[p])
TextIdx(p) == {i \in InstrIdx(p) : pages[p][i].type = InstrTypeString}
\* X + Width as the engine's arithmetic gives it
Right(b) == RAdd(b.X, b.Width)
\* a + b <= c of the exact values, with no rounding of the sum
SumLe(a, b, c) ==
    LET D == Max({a.d, b.d, c.d})
    IN  a.n * (D \div a.d) + b.n * (D \div b.d) <= c.n * (D \div c.d)

\* C1: every page handed to the page consumer begins with a SetFont
\* instruction, and that SetFont names the font that was current when
\* StartNewPage started the page.
C1_PageBeginsWithSetFont ==
    \A p \in DeliveredIds :
        /\ Len(pages[p]) >= 1
        /\ pages[p][1].type = InstrTypeSetFont
        /\ pages[p][1].font = pageStartFont[p]

\* C1 witness: a page started while the bold font was current has been
\* delivered, with text behind its leading SetFont.
C1_Witness ==
    \E p \in DeliveredIds :
        /\ p > 1
        /\ Len(pages[p]) >= 2
        /\ pages[p][1].type = InstrTypeSetFont
        /\ FontStyleOf(cache, pages[p][1].font) = FontStyleBold
        /\ pages[p][2].type = InstrTypeString

\* the Text instructions of a finalized line, lowest index first
LineTexts(ln) == {i \in ln.from..ln.to : pages[ln.page][i].type = InstrTypeString}

\* C2: in every line finalized by JustifyLineBoth that holds at least two
\* Text instructions, whatever else lies in the line's range, the first
\* word's left edge is 0 and the last word's right edge is the page width.
C2_JustifiedLineSpansPage ==
    \A k \in 1..Len(lines) :
        (lines[k].mode = Align_Justify /\ Cardinality(LineTexts(lines[k])) >= 2)
        => /\ pages[lines[k].page][Min(LineTexts(lines[k]))].bbox.X = Zero
           /\ Right(pages[lines[k].page][Max(LineTexts(lines[k]))].bbox)
                = pageSize.dx

\* the Text instructions of page p that share the line (the Y) of instruction i
SameLine(p, i) == {j \in TextIdx(p) : pages[p][j].bbox.Y = pages[p][i].bbox.Y}

\* C3: every Text instruction of a delivered page lies within the page
\* width, 0 <= X and X + Width <= pageWidth, unless the word itself is wider
\* than the page, and then it is the only word of its line.
C3_TextWithinPageWidth ==
    \A p \in DeliveredIds : \A i \in TextIdx(p) :
        \/ /\ RLe(Zero, pages[p][i].bbox.X)
           /\ SumLe(pages[p][i].bbox.X, pages[p][i].bbox.Width, pageSize.dx)
        \/ /\ RLt(pageSize.dx, pages[p][i].bbox.Width)
           /\ SameLine(p, i) = {i}

\* the number of whole lines a page holds: floor(pageSize.dy / lineSpacing)
LinesPerPage == (pageSize.dy.n * lineSpacing.d) \div (pageSize.dy.d * lineSpacing.n)
TextYs(p) == {pages[p][i].bbox.Y : i \in TextIdx(p)}
TextOrRuleIdx(p) ==
    {i \in InstrIdx(p) : pages[p][i].type \in {InstrTypeString, InstrTypeLine}}

\* C4: when lineSpacing <= pageHeight, while the program runs every Text
\* and Rule instruction of
\* every page has Y >= 0 and Y + lineSpacing <= pageHeight, so a page holds
\* text on at most K = floor(pageHeight / lineSpacing) line positions; the
\* cursor never rests on a (K+1)-th line: the line break that would create
\* it has handed the page off (to the observer, or deleted it) and started
\* a new page, which begins with a SetFont.
C4_LinesWithinPageHeight ==
    (Started /\ ~aborted /\ RLe(lineSpacing, pageSize.dy)) =>
        /\ \A p \in PageIds : \A i \in TextOrRuleIdx(p) :
              /\ RLe(Zero, pages[p][i].bbox.Y)
              /\ SumLe(pages[p][i].bbox.Y, lineSpacing, pageSize.dy)
        /\ \A p \in PageIds : Cardinality(TextYs(p)) <= LinesPerPage
        /\ SumLe(curr.y, lineSpacing, pageSize.dy)
        /\ \A p \in PageIds \ {currPage} :
              IF pageObserver THEN p \in DeliveredIds ELSE p \in freed
        /\ pages[currPage][1].type = InstrTypeSetFont

\* C4 witness: a delivered page is full (text on K >= 2 line positions) and
\* the word of the (K+1)-th line sits at the top of the page after it.
C4_Witness ==
    /\ Started
    /\ \E p \in DeliveredIds :
          /\ LinesPerPage >= 2
          /\ Cardinality(TextYs(p)) = LinesPerPage
          /\ p + 1 \in PageIds
          /\ \E i \in TextIdx(p + 1) : pages[p + 1][i].bbox.Y = Zero

\* a step of AddWordStep on the newline token
NewlineStep == lastTok' = "newline" /\ ntok' = ntok + 1

SamePagesAndCursor ==
    /\ pages' = pages
    /\ curr' = curr
    /\ currPage' = currPage
    /\ delivered' = delivered

\* the paragraph break: StartNewLine(true), twice when the cursor is not at 0
ParagraphBreakDone ==
    LET b1 == StartNewLine(Self, TRUE)
        b == IF curr.x # Zero THEN StartNewLine(b1, TRUE) ELSE b1
    IN  /\ pages' = b.pages
        /\ curr' = b.curr
        /\ currPage' = b.currPage
        /\ delivered' = b.delivered

\* C5: in a run of newline tokens given to AddWord with no word, tag or
\* image in between, the first newline leaves pages and cursor unchanged,
\* the second does the paragraph break (StartNewLine(true) once if the
\* cursor was at x = 0, twice otherwise), and the third and every later one
\* leaves the cursor and all page contents unchanged, also when the break
\* started a new page and so reset the newline counter.
C5_NewlineRun ==
    [][NewlineStep =>
          /\ (nlRun' = 1 => SamePagesAndCursor)
          /\ (nlRun' = 2 => ParagraphBreakDone)
          /\ (nlRun' >= 3 => SamePagesAndCursor)]_vars

\* C5 witness: the fourth newline of a run has been given to AddWord after
\* the break of the second one started a new page, so the counter, reset by
\* the new page, is at 2 again.
C5_Witness ==
    /\ lastTok = "newline"
    /\ nlRun = 4
    /\ newLinesCount = 2
    /\ Len(pages) >= 2
    /\ Len(lines) >= 1

\* position i of text t ends a word that two newline characters separate
\* from the word starting at i + 3
ParaBreakAt(t, i) ==
    /\ i + 3 <= Len(t)
    /\ ~IsWs(t[i])
    /\ t[i + 1] = "\n"
    /\ t[i + 2] = "\n"
    /\ ~IsWs(t[i + 3])

WordStarts(t) == {j \in 1..Len(t) : ~IsWs(t[j]) /\ (j = 1 \/ IsWs(t[j - 1]))}
Letters(t) == {j \in 1..Len(t) : ~IsWs(t[j])}

\* the words of t set on one line under the regular font fit the page width
FitsOneLine(t) ==
    RLe(RAdd(R(Cardinality(Letters(t)) * CharDx(FontStyleRegular)),
             RMul(R(Cardinality(WordStarts(t)) - 1), spaceDx)),
        pageSize.dx)

\* C6: after Process has laid out, as the first token, a text token whose
\* words all fit on one line of a page of at least three lines, a word that
\* follows two consecutive newline characters is on a lower line (larger Y)
\* than the word before them, on the same page.
C6_DoubleNewlineBreaksLine ==
    (ntok = 1 /\ lastText # <<>> /\ FitsOneLine(lastText) /\ LinesPerPage >= 3) =>
        \A i \in 1..Len(lastText) :
            ParaBreakAt(lastText, i) =>
                LET k == Cardinality({j \in WordStarts(lastText) : j <= i})
                IN  /\ Len(pages[1]) >= k + 2
                    /\ pages[1][k + 1].type = InstrTypeString
                    /\ pages[1][k + 2].type = InstrTypeString
                    /\ RLt(pages[1][k + 1].bbox.Y, pages[1][k + 2].bbox.Y)

RuleEntries == {k \in 1..Len(appendLog) : appendLog[k].instr.type = InstrTypeLine}
ImageEntries == {k \in 1..Len(appendLog) : appendLog[k].instr.type = InstrTypeImage}
\* the instruction of log entry k as the page holds it now
Now(k) == pages[appendLog[k].page][appendLog[k].idx]

\* C7: every rule tag the program has handled to the end (it has not
\* aborted) has appended exactly one Rule instruction; each Rule has
\* X = 0, Width = pageWidth, Height = lineSpacing, lies within the page
\* height when lineSpacing <= pageHeight, shares its Y with no Text
\* instruction of its page, and is still exactly as it was appended (line
\* finalization never alters it).
C7_RuleAloneFullWidth ==
    Started =>
        /\ ~aborted => Cardinality(RuleEntries) = hrCount
        /\ \A k \in RuleEntries :
              /\ Now(k) = appendLog[k].instr
              /\ Now(k).bbox.X = Zero
              /\ Now(k).bbox.Width = pageSize.dx
              /\ Now(k).bbox.Height = lineSpacing
              /\ RLe(lineSpacing, pageSize.dy) =>
                    /\ RLe(Zero, Now(k).bbox.Y)
                    /\ SumLe(Now(k).bbox.Y, lineSpacing, pageSize.dy)
              /\ \A j \in TextIdx(appendLog[k].page) :
                    pages[appendLog[k].page][j].bbox.Y # Now(k).bbox.Y

\* C7 witness: a Rule below the top of a page that holds text, after the
\* line breaks around the rule have finalized that text under justification.
C7_Witness ==
    \E k \in RuleEntries :
        /\ RLt(Zero, Now(k).bbox.Y)
        /\ TextIdx(appendLog[k].page) # {}
        /\ \E n \in 1..Len(lines) : lines[n].page = appendLog[k].page
        /\ curr.y # Zero

\* Width / Height is w / h up to the rounding of single precision: the two
\* cross products differ by less than 2^-20 of their size
AspectKept(b, w, h) ==
    LET x == RMul(b.Width, R(h))
        y == RMul(b.Height, R(w))
        tol == RDiv(x, R(1048576))
    IN  RLe(RSub(x, y), tol) /\ RLe(RSub(y, x), tol)

\* C8: every Image instruction has Width <= pageWidth, Y + Height <=
\* pageHeight, X = (pageWidth - Width) / 2 >= 0 (the quotient as float
\* arithmetic computes it) and the aspect ratio of the decoded image up to
\* rounding, and is still exactly as it was appended (the line finalization
\* after it does not change its box).
C8_ImageWithinPage ==
    \A k \in ImageEntries :
        LET b == Now(k).bbox
            d == Now(k).data
        IN  /\ Now(k) = appendLog[k].instr
            /\ RLe(b.Width, pageSize.dx)
            /\ RLe(Zero, b.Y)
            /\ SumLe(b.Y, b.Height, pageSize.dy)
            /\ b.X = RDiv(RSub(pageSize.dx, b.Width), R(2))
            /\ RLe(Zero, b.X)
            /\ RLt(Zero, b.Width)
            /\ AspectKept(b, d.w, d.h)

\* instruction kinds and payloads, without the boxes finalization fills in
Strip(instrs) == [i \in 1..Len(instrs) |-> [instrs[i] EXCEPT !.bbox = NoRect]]
RECURSIVE Flatten(_, _)
Flatten(ids, i) ==
    IF i > Len(ids) THEN <<>> ELSE Strip(pages[ids[i]]) \o Flatten(ids, i + 1)
LogInstrs == [k \in 1..Len(appendLog) |-> [appendLog[k].instr EXCEPT !.bbox = NoRect]]

HandedOffOnceInOrder ==
    /\ \A i, j \in 1..Len(delivered) : i < j => delivered[i] < delivered[j]
    /\ \A i \in 1..Len(delivered) : pages[delivered[i]] = handoff[i]
    /\ \A p \in PageIds \ {currPage} : p \in DeliveredIds

\* C9 as stated: with an observer, pages are handed off at most once, in
\* creation order, are not touched afterwards, and after Process returns
\* every instruction ever appended is on a delivered page, in append order.
C9_AllInstructionsDelivered ==
    (Started /\ pageObserver) =>
        /\ HandedOffOnceInOrder
        /\ pc \in {"done", "gone"} => Flatten(delivered, 1) = LogInstrs

\* C9 amended: the same, except that after Process returns the instructions
\* on the delivered pages are all those appended but the last one, the
\* leading SetFont of the page StartNewPage allocated after handing off the
\* last page, which stays the undelivered current page until the engine's
\* destructor deletes it.
C9_AllButTrailingSetFontDelivered ==
    (Started /\ pageObserver) =>
        /\ HandedOffOnceInOrder
        /\ pc \in {"done", "gone"} =>
              /\ Flatten(delivered, 1) \o <<InstrSetFont(currFont)>> = LogInstrs
              /\ currPage \notin DeliveredIds
              /\ pages[currPage] = <<InstrSetFont(currFont)>>
        /\ freed = IF pc = "gone" THEN {currPage} ELSE {}

\* C9 witness: Process has returned with an observer after handing off
\* three pages, the first with finalized text on it, and the engine has
\* been destroyed.
C9_Witness ==
    /\ pc = "gone"
    /\ pageObserver
    /\ Len(delivered) >= 3
    /\ TextIdx(delivered[1]) # {}
    /\ Len(lines) >= 1

\* C10: the end-of-input flush hands a page to the consumer only if
\* something other than SetFont instructions has been placed on it.
C10_FlushSkipsEmptyPage ==
    [][(pc = "run" /\ pc' = "done") =>
          \A i \in (Len(delivered) + 1)..Len(delivered') :
              \E n \in 1..Len(pages'[delivered'[i]]) :
                  pages'[delivered'[i]][n].type # InstrTypeSetFont]_vars

\* ---- the words iterator
\* the reference tokenizer over letters, spaces, CR and LF
NewlineToken == <<"\n">>
IsLetterRun(t, i, j) ==
    /\ \A k \in i..j : t[k] \notin {" ", "\r", "\n"}
    /\ (j = Len(t) \/ t[j + 1] \in {" ", "\r", "\n"})

RECURSIVE RefTokens(_, _)
RefTokens(t, i) ==
    IF i > Len(t) THEN <<>>
    ELSE IF t[i] = " " THEN RefTokens(t, i + 1)
    ELSE IF t[i] = "\r" /\ i < Len(t) /\ t[i + 1] = "\n"
         THEN <<NewlineToken>> \o RefTokens(t, i + 2)
    ELSE IF t[i] \in {"\r", "\n"}
         THEN <<NewlineToken>> \o RefTokens(t, i + 1)
    ELSE LET j == CHOOSE j \in i..Len(t) : IsLetterRun(t, i, j)
         IN  <<SubSeq(t, i, j)>> \o RefTokens(t, j + 1)

NoTab == \A i \in 1..Len(wiS) : wiS[i] # "\t"
IsPrefix(a, b) == Len(a) <= Len(b) /\ a = SubSeq(b, 1, Len(a))

\* C11: on a string of letters, spaces, CR and LF the tokens WordsIter::Next
\* has returned are always the first tokens of the reference tokenizer's
\* sequence (no token for spaces, one word per maximal run of letters, one
\* newline token per "\r\n", lone "\r" and lone "\n", never merged), and
\* when Next returns NULL they are the whole sequence.
C11_NextMatchesReference ==
    (wiRet # "none" /\ NoTab) =>
        /\ wiRet # "abort"
        /\ IsPrefix(wiOut, RefTokens(wiS, 1))
        /\ (wiRet = "NULL" => wiOut = RefTokens(wiS, 1))
        /\ (wiRet \in {"word", "newline"} => wiOut # <<>>)

\* C11 witness: Next has returned NULL on a string holding a word, a "\r\n"
\* and one more line ending, after a word and two newline tokens.
C11_Witness ==
    /\ wiRet = "NULL"
    /\ NoTab
    /\ \E i \in 1..(Len(wiS) - 1) : wiS[i] = "\r" /\ wiS[i + 1] = "\n"
    /\ Len(wiOut) = 3
    /\ \E k \in 1..3 : wiOut[k] # NewlineToken
    /\ Cardinality({k \in 1..3 : wiOut[k] = NewlineToken}) = 2

\* C12: every call of WordsIter::Next, on any string (tabs included),
\* returns NULL or moves the read position forward, a word it returns has
\* at least one character, and the assert on the word's length never fails.
C12_NextAdvancesOrEnds ==
    [][wiRet' \notin {"none", "new"} =>
          /\ wiRet' # "abort"
          /\ (wiRet' = "NULL" \/ wiCurr' > wiCurr)
          /\ (wiRet' = "word" => Len(wiOut'[Len(wiOut')]) >= 1)]_vars

\* ---- the font cache
Triple(e) == <<e.name, e.size, e.style>>
CacheTriples == {Triple(cache[i]) : i \in 1..Len(cache)}
FirstEntry(tr) == Min({i \in 1..Len(cache) : Triple(cache[i]) = tr})

OneEntryPerTriple ==
    /\ \A i, j \in 1..Len(cache) :
          i # j => /\ Triple(cache[i]) # Triple(cache[j])
                   /\ cache[i].font # cache[j].font
    /\ CacheTriples = {Triple(fontCalls[k]) : k \in 1..Len(fontCalls)}
    /\ \A k \in 1..Len(fontCalls) :
          fontCalls[k].font = cache[FirstEntry(Triple(fontCalls[k]))].font
    /\ \A k, l \in 1..Len(fontCalls) :
          (fontCalls[k].font = fontCalls[l].font)
              <=> (Triple(fontCalls[k]) = Triple(fontCalls[l]))

\* the destructor deletes the Font of every entry the cache has, and only
\* then do entries go
TeardownOnly ==
    IF cacheDeleted'
    THEN ~cacheDeleted =>
             /\ fontsDeleted' = {cache[i].font : i \in 1..Len(cache)}
             /\ cache' = <<>>
    ELSE IsPrefix(cache, cache') /\ fontsDeleted' = {}

CacheOnlyGrows ==
    Len(fontCalls') = Len(fontCalls) + 1 =>
        /\ IsPrefix(cache, cache')
        /\ IF Triple(fontCalls'[Len(fontCalls')]) \in CacheTriples
           THEN cache' = cache
           ELSE /\ Len(cache') = Len(cache) + 1
                /\ Triple(cache'[Len(cache')])
                      = Triple(fontCalls'[Len(fontCalls')])

\* C13: after any calls of FontCache::GetFont the cache holds exactly one
\* entry per distinct (name, size, style) asked for, entries have different
\* handles, every call returned the handle of the first call for its triple,
\* a call for a triple already present leaves the cache unchanged, a call
\* for a new one appends exactly one entry, and no entry is removed or
\* replaced before ~FontCache, which deletes the Font of every entry.
C13_OneEntryPerTriple ==
    /\ [](~cacheDeleted => OneEntryPerTriple)
    /\ [][CacheOnlyGrows /\ TeardownOnly]_vars

\* C13 witness: three calls on a live cache, the third asking again for the
\* triple of the first after another triple was added, got the first call's
\* handle.
C13_Witness ==
    /\ Len(fontCalls) = 3
    /\ Len(cache) = 2
    /\ ~cacheDeleted
    /\ Triple(fontCalls[1]) = Triple(fontCalls[3])
    /\ Triple(fontCalls[1]) # Triple(fontCalls[2])
    /\ fontCalls[1].font = fontCalls[3].font
    /\ fontCalls[1].font # fontCalls[2].font

ValidFont(font) ==
    /\ font \in 1..Len(cache)
    /\ FontOk(cache[font].name, cache[font].size, cache[font].style)

\* C14: every handle stored in the cache, held as the current font or
\* carried by a SetFont instruction is a valid font, also when the
\* construction of a font asked for has failed.
C14_EveryFontValid ==
    ~cacheDeleted =>
    /\ \A i \in 1..Len(cache) : ValidFont(cache[i].font)
    /\ Started => ValidFont(currFont)
    /\ \A p \in PageIds : \A i \in InstrIdx(p) :
          pages[p][i].type = InstrTypeSetFont => ValidFont(pages[p][i].font)

\* ---- style tags
StyleOfTag(g) ==
    CASE g \in {Tag_B, Tag_Strong} -> FontStyleBold
      [] g \in {Tag_I, Tag_Em} -> FontStyleItalic
      [] g = Tag_U -> FontStyleUnderline
      [] g = Tag_Strike -> FontStyleStrikeout

StyleFlags ==
    {FontStyleBold, FontStyleItalic, FontStyleUnderline, FontStyleStrikeout}

\* the tags of style fs handled so far, as positions of tagLog
TagsOf(fs) == {k \in 1..Len(tagLog) : StyleOfTag(tagLog[k].tag) = fs}

FlagFollowsLastTag ==
    \A fs \in StyleFlags :
        HasStyle(currFontStyle, fs)
            <=> (TagsOf(fs) # {} /\ IsStartTag(tagLog[Max(TagsOf(fs))]))

StyleTagEffect ==
    Len(tagLog') = Len(tagLog) + 1 =>
        LET t == tagLog'[Len(tagLog')]
            fs == StyleOfTag(t.tag)
        IN  /\ HasStyle(currFontStyle', fs) = IsStartTag(t)
            /\ \A g \in StyleFlags \ {fs} :
                  HasStyle(currFontStyle', g) = HasStyle(currFontStyle, g)
            /\ IF currFontStyle' # currFontStyle
               THEN /\ appendLog' =
                         Append(appendLog,
                                [page |-> currPage,
                                 idx |-> Len(pages[currPage]) + 1,
                                 instr |-> InstrSetFont(currFont')])
                    /\ pages' = [pages EXCEPT ![currPage] =
                                    Append(@, InstrSetFont(currFont'))]
                    /\ FontStyleOf(cache', currFont') = currFontStyle'
               ELSE /\ appendLog' = appendLog
                    /\ pages' = pages
                    /\ currFont' = currFont

\* C15: a bold / italic / underline / strikeout start tag sets and an end
\* tag clears its own flag of the style bitmask and no other, so a flag is
\* on iff the last tag of its style was a start tag (no counting of nested
\* tags); the tag appends one SetFont instruction, naming the font of the
\* new bitmask, iff the bitmask changed, and nothing otherwise.
C15_StyleFlags == []FlagFollowsLastTag /\ [][StyleTagEffect]_vars

\* C15 witness: after <b><b></b> bold is off, and the three tags have
\* appended two SetFont instructions behind the page's first one.
C15_Witness ==
    /\ Len(tagLog) = 3
    /\ tagLog[1] = Tag(Tag_B, StartTag, "", <<>>)
    /\ tagLog[2] = Tag(Tag_B, StartTag, "", <<>>)
    /\ tagLog[3] = Tag(Tag_B, EndTag, "", <<>>)
    /\ ~HasStyle(currFontStyle, FontStyleBold)
    /\ Len(appendLog) = 3

\* ---- the last line of a paragraph
\* the words of the line in progress, as indexes into the current page
OpenWords ==
    IF currPage = NULL THEN {}
    ELSE {i \in (currLineInstrOffset + 1)..Len(pages[currPage]) :
             pages[currPage][i].type = InstrTypeString}

\* a step that breaks the paragraph: a paragraph or rule tag, the second
\* newline of a run, the flush at the end of the input
ParagraphBreakStep ==
    \/ /\ lastTok' = "tag" /\ ntok' = ntok + 1
       /\ lastTag'.tag \in {Tag_P, Tag_Hr}
    \/ NewlineStep /\ nlRun' = 2
    \/ pc = "run" /\ pc' = "done"

\* a step of AddWordStep on a word
WordStep == lastTok' = "word" /\ ntok' = ntok + 1

\* after the step, the words ws of page p stand left-aligned from X = 0
LeftLaidAfter(p, ws) ==
    \A i \in ws :
        pages'[p][i].bbox.X =
            IF \A j \in ws : j >= i THEN Zero
            ELSE LET j == Max({j \in ws : j < i})
                 IN  RAdd(pages'[p][j].bbox.X,
                          RAdd(pages'[p][j].bbox.Width, spaceDx))

NewLines == {k \in 1..Len(lines') : k > Len(lines)}

\* C16: when a paragraph break (paragraph tag, rule tag, second newline of a
\* run, end-of-input flush) finalizes a line that holds words while the
\* justification is justify, the words are left-aligned and not stretched:
\* the first at X = 0, each next one at the previous X + Width + spaceDx;
\* such a step finalizes no line with full justification, and a line
\* finalized by a word that does not fit is finalized with full
\* justification.
C16_ParagraphEndLeftAligned ==
    [][/\ (ParagraphBreakStep /\ currJustification = Align_Justify) =>
             /\ LeftLaidAfter(currPage, OpenWords)
             /\ \A k \in NewLines : lines'[k].mode = Align_Left
       /\ (WordStep /\ currJustification = Align_Justify) =>
             \A k \in NewLines : lines'[k].mode = Align_Justify]_vars

\* C16 witness: the second newline of a run has just finalized, with left
\* alignment, a line of two words and a SetFont that is narrower than the
\* page.
C16_Witness ==
    /\ lastTok = "newline"
    /\ nlRun = 2
    /\ lines # <<>>
    /\ LET ln == lines[Len(lines)]
       IN  /\ ln.mode = Align_Left
           /\ Cardinality(LineTexts(ln)) = 2
           /\ \E i \in ln.from..ln.to : pages[ln.page][i].type = InstrTypeSetFont
           /\ \A i \in LineTexts(ln) :
                 RLt(Right(pages[ln.page][i].bbox), pageSize.dx)
           /\ \E i \in LineTexts(ln) : pages[ln.page][i].bbox.X = Zero

\* ---- right and center alignment
\* sums, differences and halves of REAL values as numbers, without rounding
ExactAdd(a, b) ==
    LET D == Max({a.d, b.d})
    IN  Norm(a.n * (D \div a.d) + b.n * (D \div b.d), D)
ExactSub(a, b) == ExactAdd(a, [n |-> -b.n, d |-> b.d])
ExactHalf(a) == Norm(a.n, 2 * a.d)

\* width of the words of line ln that stand before index i, each with the
\* space behind it
RECURSIVE WidthBefore(_, _, _)
WidthBefore(ln, i, j) ==
    IF j >= i THEN Zero
    ELSE IF pages[ln.page][j].type = InstrTypeString
         THEN ExactAdd(ExactAdd(pages[ln.page][j].bbox.Width, spaceDx),
                       WidthBefore(ln, i, j + 1))
         ELSE WidthBefore(ln, i, j + 1)

\* L: the widths of the words of the line and one space between neighbours
ContentWidth(ln) == ExactSub(WidthBefore(ln, ln.to + 1, ln.from), spaceDx)

LineStart(ln) ==
    IF ln.mode = Align_Right THEN ExactSub(pageSize.dx, ContentWidth(ln))
    ELSE ExactHalf(ExactSub(pageSize.dx, ContentWidth(ln)))

\* C17: in every line with at least one word finalized under right or
\* center alignment the words stand left to right, one inter-word space
\* apart, from X = pageWidth - L (right) or X = (pageWidth - L) / 2
\* (center), L being the words' widths plus one space between neighbours,
\* whatever SetFont instructions the line holds; so the last word ends at
\* pageWidth (right) or as far from it as the first is from 0 (center).
C17_RightCenterAligned ==
    \A k \in 1..Len(lines) :
        LET ln == lines[k]
        IN  (ln.mode \in {Align_Right, Align_Center} /\ LineTexts(ln) # {}) =>
                /\ \A i \in LineTexts(ln) :
                      pages[ln.page][i].bbox.X =
                          ExactAdd(LineStart(ln), WidthBefore(ln, i, ln.from))
                /\ LET last == pages[ln.page][Max(LineTexts(ln))].bbox
                       first == pages[ln.page][Min(LineTexts(ln))].bbox
                   IN  IF ln.mode = Align_Right
                       THEN ExactAdd(last.X, last.Width) = pageSize.dx
                       ELSE first.X = ExactSub(pageSize.dx,
                                               ExactAdd(last.X, last.Width))
\* ---- the top of a page
VisibleIdx(p) ==
    {i \in InstrIdx(p) :
        pages[p][i].type \in {InstrTypeString, InstrTypeLine, InstrTypeImage}}

\* C18: a line break requested at the top of a page (y = 0) before any
\* text, rule or image was placed on the current line changes nothing, so
\* no page begins with a blank line: on every page that holds text, a rule
\* or an image, the first of them is at Y = 0.
C18_NoBlankLeadingLine ==
    \A p \in PageIds :
        VisibleIdx(p) # {} => pages[p][Min(VisibleIdx(p))].bbox.Y = Zero

\* ---- hand-off
\* the finalized lines that cover instruction i of page p
LinesOver(p, i) ==
    {k \in 1..Len(lines) :
        lines[k].page = p /\ lines[k].from <= i /\ i <= lines[k].to}

\* C19: whenever a page is handed to the consumer (by a line break, a rule,
\* an image, a page-break tag or the final flush) the line in progress is
\* empty: every instruction of a delivered page behind its leading SetFont
\* lies in exactly one line that JustifyLine has finalized, and every Text
\* among them in a line that one of the four alignments has laid out, so no
\* Text is delivered with only its measured box.
C19_DeliveredLinesFinalized ==
    \A p \in DeliveredIds : \A i \in InstrIdx(p) \ {1} :
        /\ Cardinality(LinesOver(p, i)) = 1
        /\ pages[p][i].type = InstrTypeString =>
              \A k \in LinesOver(p, i) : lines[k].mode \in Aligns

\* ---- the font of a page
SetFontIdx(p) == {i \in InstrIdx(p) : pages[p][i].type = InstrTypeSetFont}

\* the font a renderer replaying page p alone has selected at instruction i
FontAt(p, i) == pages[p][Max({j \in SetFontIdx(p) : j < i})].font

\* C20: between token-processing steps the last SetFont instruction of the
\* current page names the current font, which is the cache's handle for
\* (fontName, fontSize, current style); and on every page each Text
\* instruction has the width its word measures under the font of the last
\* SetFont before it on that page.
C20_PageFontIsCurrentFont ==
    Started =>
        /\ SetFontIdx(currPage) # {}
        /\ pages[currPage][Max(SetFontIdx(currPage))].font = currFont
        /\ GetFont(cache, fontName, fontSize, currFontStyle)
              = [cache |-> cache, font |-> currFont]
        /\ \A p \in PageIds : \A i \in TextIdx(p) :
              /\ \E j \in SetFontIdx(p) : j < i
              /\ pages[p][i].bbox.Width
                    = MeasureText(cache, FontAt(p, i), pages[p][i].s,
                                  lineSpacing).Width

\* C20 witness: bold text stands on a page begun after the bold tag, and
\* regular text stands on an earlier page.
C20_Witness ==
    /\ Started
    /\ currPage > 1
    /\ HasStyle(currFontStyle, FontStyleBold)
    /\ TextIdx(currPage) # {}
    /\ Cardinality(SetFontIdx(currPage)) = 1
    /\ \E p \in PageIds : p < currPage /\ TextIdx(p) # {}

====
